---- MODULE Spec2Model ----
(***************************************************************************)
(* SC.SparseArray (frameworks/runtime/system/sparse_array.js): a lazily    *)
(* populated array that asks a delegate for its length and its content.    *)
(*                                                                         *)
(* One state of the model is one SparseArray between two calls.  Every     *)
(* public method is one action; the calls a method makes (requestIndex,    *)
(* provideObjectsInRange from provideObjectAtIndex, the delegate's         *)
(* callbacks and the delegate's synchronous answers) are part of the       *)
(* action.  lastOp, events, ret and threw describe the call that produced  *)
(* the state: its name and arguments, what it emitted, what it returned.   *)
(***************************************************************************)
EXTENDS Integers, Sequences, FiniteSets

\* ------------------------------------------------------------------------
\* Bounds of the model
\* ------------------------------------------------------------------------
\* largest length of the backing array and largest declared length
MaxLen == 2
\* largest rangeWindowSize tried
MaxWindow == 2
\* longest array of objects handed to replace
MaxObjs == 1
\* largest amt handed to replace
MaxAmt == 1

\* ------------------------------------------------------------------------
\* JavaScript values
\* ------------------------------------------------------------------------
Undefined == [t |-> "undefined", v |-> 0]
Null == [t |-> "null", v |-> 0]
Num(n) == [t |-> "number", v |-> n]
Obj(n) == [t |-> "object", v |-> n]
\* the receiver, returned by the methods that end in `return this`
This == [t |-> "this", v |-> 0]
\* an index of a native array that holds no property at all
Hole == [t |-> "hole", v |-> 0]
\* "the delegate did not answer during the call"
NoSync == [t |-> "nosync", v |-> 0]
\* "never provided, or touched since" in the history variable populated
NotPopulated == [t |-> "notpopulated", v |-> 0]

\* SC.none(x): x is null or undefined
none(x) == x.t \in {"null", "undefined"}

\* the values a delegate provides and a caller inserts
Values == {Obj(1), Undefined}

\* the arrays of n objects
ArraysOf(n) == [1..n -> Values]

\* the indexes of the model
Idx == 0..(MaxLen - 1)

\* ------------------------------------------------------------------------
\* Native arrays: a sequence of cells, cell k+1 of the sequence is index k
\* ------------------------------------------------------------------------
\* content[idx]: a hole and an index past the end both read as undefined
Get(arr, idx) ==
  IF idx >= 0 /\ idx < Len(arr) /\ arr[idx + 1] # Hole THEN arr[idx + 1] ELSE Undefined

\* content[idx] = value: writing past the end leaves holes in between
Put(arr, idx, value) ==
  IF idx < Len(arr)
    THEN [arr EXCEPT ![idx + 1] = value]
    ELSE arr \o [k \in 1..(idx - Len(arr)) |-> Hole] \o <<value>>

\* this._sa_content: null, or a native array
NullContent == [isNull |-> TRUE, elems |-> <<>>]
Arr(s) == [isNull |-> FALSE, elems |-> s]

\* `if (!content) content = this._sa_content = []`
ContentOrEmpty(content) == IF content.isNull THEN Arr(<<>>) ELSE content

\* ------------------------------------------------------------------------
\* The delegate: absent, or an object with some of the six methods
\* ------------------------------------------------------------------------
Caps == {"sparseArrayDidRequestLength", "sparseArrayDidRequestRange",
         "sparseArrayDidRequestIndex", "sparseArrayDidRequestIndexOf",
         "sparseArrayShouldReplace", "sparseArrayDidReset"}
NoDelegate == [present |-> FALSE, caps |-> {}]
Del(caps) == [present |-> TRUE, caps |-> caps]
Delegates == {NoDelegate, Del({}), Del(Caps), Del({"sparseArrayDidRequestIndex"})}
HasCap(del, cap) == del.present /\ cap \in del.caps

VARIABLES
  _sa_content,      \* this._sa_content
  _length,          \* this._length
  delegate,         \* this.delegate
  rangeWindowSize,  \* this.rangeWindowSize
  populated,        \* history: index -> the value a provide* call stored there
  requested,        \* history: how far the steps of a late answer have come
  _TMP_RANGE,       \* the scratch range of the prototype, handed to the delegate
  lastOp,           \* the call that produced this state
  events,           \* what that call emitted, in order
  ret,              \* what that call returned
  threw             \* the exception that call ended with, or "none"

vars == <<_sa_content, _length, delegate, rangeWindowSize, populated, requested,
          _TMP_RANGE,
          lastOp, events, ret, threw>>

\* an emitted notification or a call made on the delegate
Ev(kind, self, start, length) ==
  [kind |-> kind, self |-> self, start |-> start, length |-> length]
NoArg == 0 - 1

Op(name, idx, amt, objects, arg, allow, sync) ==
  [name |-> name, idx |-> idx, amt |-> amt, objects |-> objects,
   arg |-> arg, allow |-> allow, sync |-> sync]

\* the part of the state a method works on, with the log of the running call
St(content, length, pop, log, err) ==
  [content |-> content, length |-> length, pop |-> pop, log |-> log, err |-> err]
Cur == St(_sa_content, _length, populated, <<>>, "none")

Emit(st, ev) == [st EXCEPT !.log = Append(@, ev)]

\* this.enumerableContentDidChange() / enumerableContentDidChange(range)
enumerableContentDidChange(st, start, length) ==
  Emit(st, Ev("enumerableContentDidChange", FALSE, start, length))

NothingPopulated == [j \in Idx |-> NotPopulated]

\* the call asked the delegate to fetch
Fetched(log) ==
  \E k \in 1..Len(log) :
    log[k].kind \in {"sparseArrayDidRequestRange", "sparseArrayDidRequestIndex"}

\* the call is a provide* over a range that holds index j
ProvidedAt(op, j) ==
  /\ op.name \in {"provideObjectsInRange", "provideObjectAtIndex"}
  /\ j >= op.idx /\ j < op.idx + op.amt

\* the call is a reset, or an objectsDidChangeInRange over a range that
\* holds index j
InvalidatedAt(op, j) ==
  \/ op.name = "reset"
  \/ /\ op.name = "objectsDidChangeInRange"
     /\ j >= op.idx /\ j < op.idx + op.amt

NoRequest == [idx |-> NoArg, stage |-> "none", before |-> NoArg]

\* the steps "a read of idx issues a fetch, then a reset or an invalidation
\* of idx, then a provide* over idx", taken in a row: "requested" after the
\* first, "overtaken" after the second, "answered" after the third; any
\* other call starts over.  before is the index of the fetch issued right
\* before the one for idx and left open as well.  The collection keeps no
\* such record; it is the delegate's memory of what it was asked.
NextRequested(st, op) ==
  IF Fetched(st.log) /\ op.sync = NoSync
    THEN [idx |-> op.idx, stage |-> "requested",
          before |-> IF requested.stage = "requested" /\ requested.idx # op.idx
                       THEN requested.idx ELSE NoArg]
  ELSE IF requested.stage = "requested" /\ InvalidatedAt(op, requested.idx)
    THEN [idx |-> requested.idx, stage |-> "overtaken", before |-> NoArg]
  ELSE IF requested.stage = "overtaken" /\ ProvidedAt(op, requested.idx)
    THEN [idx |-> requested.idx, stage |-> "answered", before |-> NoArg]
  ELSE NoRequest

\* _TMP_RANGE: {} on the prototype, before any fetch
NoRange == [start |-> NoArg, length |-> NoArg]

\* `range.start = start; range.length = len` ahead of every call of
\* sparseArrayDidRequestRange: the scratch range holds what the last such
\* call was handed
RangeAfter(range, log) ==
  LET calls == {k \in 1..Len(log) : log[k].kind = "sparseArrayDidRequestRange"}
  IN IF calls = {} THEN range
     ELSE LET last == CHOOSE k \in calls : \A m \in calls : m <= k
          IN [start |-> log[last].start, length |-> log[last].length]

Finish(st, op, r) ==
  /\ _sa_content' = st.content
  /\ _length' = st.length
  /\ populated' = st.pop
  /\ requested' = NextRequested(st, op)
  /\ _TMP_RANGE' = RangeAfter(_TMP_RANGE, st.log)
  /\ events' = st.log
  /\ lastOp' = op
  /\ ret' = r
  /\ threw' = st.err
  /\ UNCHANGED <<delegate, rangeWindowSize>>

\* ------------------------------------------------------------------------
\* LENGTH SUPPORT
\* ------------------------------------------------------------------------
\* DoProvideLength without the `length !== this._length` test
DoProvideLengthUntested(st, length) ==
  LET s1 == IF none(length)
              THEN [st EXCEPT !.content = NullContent, !.pop = NothingPopulated]
              ELSE st
  IN enumerableContentDidChange([s1 EXCEPT !.length = length], NoArg, NoArg)

DoProvideLength(st, length) ==
  LET s1 == IF none(length)
              THEN [st EXCEPT !.content = NullContent, !.pop = NothingPopulated]
              ELSE st
  IN IF length # s1.length
       THEN enumerableContentDidChange([s1 EXCEPT !.length = length], NoArg, NoArg)
       ELSE s1

\* the lengths a delegate or the factory supplies
Lengths == {Num(n) : n \in 0..MaxLen}

provideLength(length) ==
  Finish(DoProvideLength(Cur, length),
         Op("provideLength", NoArg, NoArg, <<>>, length, TRUE, NoSync), This)

\* LengthOrZero without the `|| 0`
LengthAsStored(len) == len

\* `this._length || 0`
LengthOrZero(len) == IF len.t = "number" /\ len.v # 0 THEN len ELSE Num(0)

\* the length property; sync is what the delegate passes to provideLength
\* inside sparseArrayDidRequestLength, NoSync when it answers later
length(sync) ==
  LET asks == HasCap(delegate, "sparseArrayDidRequestLength") /\ none(_length)
      s1 == IF asks THEN Emit(Cur, Ev("sparseArrayDidRequestLength", TRUE, NoArg, NoArg))
                    ELSE Cur
      s2 == IF asks /\ sync # NoSync THEN DoProvideLength(s1, sync) ELSE s1
  IN /\ (~asks => sync = NoSync)
     /\ Finish(s2, Op("length", NoArg, NoArg, <<>>, Undefined, TRUE, sync),
               LengthOrZero(s2.length))

\* ------------------------------------------------------------------------
\* READING CONTENT
\* ------------------------------------------------------------------------
Min(a, b) == IF a < b THEN a ELSE b
Max(a, b) == IF a > b THEN a ELSE b

\* array[len] of the array handed to provideObjectsInRange
ArrGet(array, k) == IF k < Len(array) THEN array[k + 1] ELSE Undefined

\* `while(--len >= 0) content[start+len] = array[len]`
RECURSIVE ProvideLoop(_, _, _, _)
ProvideLoop(content, start, len, array) ==
  IF len - 1 >= 0
    THEN ProvideLoop(Put(content, start + len - 1, ArrGet(array, len - 1)),
                     start, len - 1, array)
    ELSE content

DoProvideObjectsInRange(st, start, len, array) ==
  LET content == ContentOrEmpty(st.content)
      s1 == [st EXCEPT
               !.content = Arr(ProvideLoop(content.elems, start, len, array)),
               !.pop = [j \in Idx |-> IF j >= start /\ j < start + len
                                        THEN ArrGet(array, j - start)
                                        ELSE st.pop[j]]]
  IN enumerableContentDidChange(s1, NoArg, NoArg)

\* array has one value per index of the range; an array that is too short
\* stores undefined for the missing ones, which Values covers
provideObjectsInRange(start, len, array) ==
  /\ start + len <= MaxLen
  /\ Finish(DoProvideObjectsInRange(Cur, start, len, array),
            Op("provideObjectsInRange", start, len, <<>>, Undefined, TRUE, NoSync), This)

\* the delegate answers an open range fetch after the call that issued it
\* has returned, passing the range object it was handed, which is the
\* scratch range: for is the index whose read issued the fetch it answers
provideObjectsInRangeLater(for, array) ==
  /\ HasCap(delegate, "sparseArrayDidRequestRange")
  /\ requested.stage = "requested"
  /\ for \in {requested.idx, requested.before} \ {NoArg}
  /\ _TMP_RANGE # NoRange
  /\ Len(array) = _TMP_RANGE.length
  /\ Finish(DoProvideObjectsInRange(Cur, _TMP_RANGE.start, _TMP_RANGE.length, array),
            Op("provideObjectsInRange", _TMP_RANGE.start, _TMP_RANGE.length, array,
               Num(for), TRUE, NoSync), This)

\* array[0] = object; range.start = index; range.length stays 1
DoProvideObjectAtIndex(st, index, object) ==
  DoProvideObjectsInRange(st, index, 1, <<object>>)

provideObjectAtIndex(index, object) ==
  Finish(DoProvideObjectAtIndex(Cur, index, object),
         Op("provideObjectAtIndex", index, 1, <<>>, Undefined, TRUE, NoSync), This)

\* "adjust window": len > 1 evaluates the undeclared name windowSize, which
\* throws a ReferenceError before any callback is invoked
AdjustWindow(idx, len) ==
  IF len > 1
    THEN [start |-> idx, length |-> len, err |-> "ReferenceError"]
    ELSE [start |-> idx, length |-> IF len < 1 THEN 1 ELSE len, err |-> "none"]

\* `while(--len >= 0) del.sparseArrayDidRequestIndex(start + len)`: the index
\* is the only argument.  sync is the value the delegate provides for that
\* index during the callback, NoSync when it answers later.
RECURSIVE RequestEachIndex(_, _, _, _)
RequestEachIndex(st, start, len, sync) ==
  IF len - 1 >= 0
    THEN LET s1 == Emit(st, Ev("sparseArrayDidRequestIndex", FALSE, start + len - 1, NoArg))
             s2 == IF sync # NoSync
                     THEN DoProvideObjectAtIndex(s1, start + len - 1, sync)
                     ELSE s1
         IN RequestEachIndex(s2, start, len - 1, sync)
    ELSE st

\* sync is the value the delegate writes to every index of the requested
\* range during the callback, NoSync when it answers later
DoRequestIndex(st, idx, sync) ==
  IF ~delegate.present THEN st
  ELSE LET w == AdjustWindow(idx, rangeWindowSize)
       IN IF w.err # "none" THEN [st EXCEPT !.err = w.err]
          ELSE IF HasCap(delegate, "sparseArrayDidRequestRange")
            THEN LET s1 == Emit(st, Ev("sparseArrayDidRequestRange", TRUE, w.start, w.length))
                 IN IF sync # NoSync
                      THEN DoProvideObjectsInRange(s1, w.start, w.length,
                                                   [k \in 1..w.length |-> sync])
                      ELSE s1
          ELSE IF HasCap(delegate, "sparseArrayDidRequestIndex")
            THEN RequestEachIndex(st, w.start, w.length, sync)
          ELSE st

\* a callback that can answer is reached
CanRequest ==
  /\ delegate.present
  /\ rangeWindowSize <= 1
  /\ \/ HasCap(delegate, "sparseArrayDidRequestRange")
     \/ HasCap(delegate, "sparseArrayDidRequestIndex")

objectAt(idx, sync) ==
  LET s0 == [Cur EXCEPT !.content = ContentOrEmpty(@)]
      miss == Get(s0.content.elems, idx) = Undefined
      s1 == IF miss THEN DoRequestIndex(s0, idx, sync) ELSE s0
  IN /\ (~(miss /\ CanRequest) => sync = NoSync)
     /\ Finish(s1, Op("objectAt", idx, NoArg, <<>>, Undefined, TRUE, sync),
               IF s1.err = "none" THEN Get(s1.content.elems, idx) ELSE Undefined)

\* `while (--loc>=start) content[loc] = undefined`
RECURSIVE ClearLoop(_, _, _)
ClearLoop(content, start, loc) ==
  IF loc - 1 >= start
    THEN ClearLoop(Put(content, loc - 1, Undefined), start, loc - 1)
    ELSE content

\* SC.maxRange(range)
maxRange(start, len) == start + len

\* InvalidateContent without the `range.start === 0` test
InvalidateContentAnyStart(content, start, len) ==
  IF content.isNull THEN content
  ELSE IF maxRange(start, len) >= Len(content.elems) THEN NullContent
  ELSE Arr(ClearLoop(content.elems, start, Min(start + len, Len(content.elems))))

\* "delete cached content"
InvalidateContent(content, start, len) ==
  IF content.isNull THEN content
  ELSE IF start = 0 /\ maxRange(start, len) >= Len(content.elems) THEN NullContent
  ELSE Arr(ClearLoop(content.elems, start, Min(start + len, Len(content.elems))))

objectsDidChangeInRange(start, len) ==
  LET s1 == [Cur EXCEPT
               !.content = InvalidateContent(@, start, len),
               !.pop = [j \in Idx |-> IF j >= start /\ j < start + len
                                        THEN NotPopulated ELSE @[j]]]
  IN Finish(enumerableContentDidChange(s1, start, len),
            Op("objectsDidChangeInRange", start, len, <<>>, Undefined, TRUE, NoSync), This)

\* Array.prototype.indexOf on the backing array: strict equality, holes skipped
ArrayIndexOf(arr, obj) ==
  IF \E k \in 1..Len(arr) : arr[k] = obj
    THEN (CHOOSE k \in 1..Len(arr) :
            arr[k] = obj /\ \A m \in 1..(k - 1) : arr[m] # obj) - 1
    ELSE 0 - 1

\* with the capability present the call goes through del.del, which is
\* undefined: a TypeError
indexOf(obj) ==
  IF HasCap(delegate, "sparseArrayDidRequestIndexOf")
    THEN Finish([Cur EXCEPT !.err = "TypeError"],
                Op("indexOf", NoArg, NoArg, <<>>, obj, TRUE, NoSync), Undefined)
    ELSE LET s0 == [Cur EXCEPT !.content = ContentOrEmpty(@)]
         IN Finish(s0, Op("indexOf", NoArg, NoArg, <<>>, obj, TRUE, NoSync),
                   Num(ArrayIndexOf(s0.content.elems, obj)))

\* ------------------------------------------------------------------------
\* EDITING
\* ------------------------------------------------------------------------
\* Array.prototype.splice(idx, amt, ...objects): the start is clamped to the
\* array's length and the delete count to what is left after the start
Splice(arr, idx, amt, objects) ==
  LET start == Min(Max(idx, 0), Len(arr))
      dc == Min(Max(amt, 0), Len(arr) - start)
  IN SubSeq(arr, 1, start) \o objects \o SubSeq(arr, start + dc + 1, Len(arr))

\* replace records its two writes in the log of the call, next to what it
\* emits, so that the order of the call can be read from the log
Written(st, field) == Emit(st, Ev("write:" \o field, FALSE, NoArg, NoArg))

\* content.replace(idx, amt, objects) of the SC.Array mixin on a native array
ArrayReplace(content, idx, amt, objects) == Arr(Splice(content.elems, idx, amt, objects))

\* Rejected with the delegate's answer ignored
RejectedIgnoringVeto(del, allow) ==
  del.present /\ ~HasCap(del, "sparseArrayShouldReplace")

\* "if we have a delegate, get permission": allow is what
\* sparseArrayShouldReplace returns when it is there to be called
Rejected(del, allow) ==
  del.present /\ (~HasCap(del, "sparseArrayShouldReplace") \/ ~allow)

\* UpdateLength with the sign of delta slipped
UpdateLengthSignSlip(st, delta) ==
  IF delta # 0 /\ ~none(st.length)
    THEN LET s1 == Emit(st, Ev("propertyWillChange:length", FALSE, NoArg, NoArg))
             s2 == Written([s1 EXCEPT !.length = Num(@.v - delta)], "_length")
         IN Emit(s2, Ev("propertyDidChange:length", FALSE, NoArg, NoArg))
    ELSE st

\* UpdateLength without the propertyWillChange / propertyDidChange bracket
UpdateLengthUnbracketed(st, delta) ==
  IF delta # 0 /\ ~none(st.length)
    THEN Written([st EXCEPT !.length = Num(@.v + delta)], "_length")
    ELSE st

\* "update length"
UpdateLength(st, delta) ==
  IF delta # 0 /\ ~none(st.length)
    THEN LET s1 == Emit(st, Ev("propertyWillChange:length", FALSE, NoArg, NoArg))
             s2 == Written([s1 EXCEPT !.length = Num(@.v + delta)], "_length")
         IN Emit(s2, Ev("propertyDidChange:length", FALSE, NoArg, NoArg))
    ELSE st

\* the indexes an applied replace(idx, amt, objects) rewrites or shifts
Touches(idx, amt, objects, j) ==
  j >= idx /\ (Len(objects) # amt \/ j < idx + amt)

replace(idx, amt, objects, allow) ==
  LET asked == HasCap(delegate, "sparseArrayShouldReplace")
      s0 == IF asked THEN Emit(Cur, Ev("sparseArrayShouldReplace", TRUE, idx, amt)) ELSE Cur
      s1 == Written([s0 EXCEPT
                       !.content = ArrayReplace(ContentOrEmpty(@), idx, amt, objects),
                       !.pop = [j \in Idx |-> IF Touches(idx, amt, objects, j)
                                                THEN NotPopulated ELSE @[j]]],
                    "_sa_content")
      s2 == UpdateLength(s1, Len(objects) - amt)
      s3 == enumerableContentDidChange(s2, NoArg, NoArg)
      op == Op("replace", idx, amt, objects, Undefined, allow, NoSync)
  IN /\ (~asked => allow)
     /\ IF Rejected(delegate, allow)
          THEN Finish(s0, op, This)
          ELSE /\ Len(s3.content.elems) <= MaxLen
               /\ s3.length.t = "number" => s3.length.v \in (0 - MaxAmt)..MaxLen
               /\ Finish(s3, op, This)

\* ResetState without `this._length = null`
ResetStateKeepLength(st) ==
  [st EXCEPT !.content = NullContent, !.pop = NothingPopulated]

\* this._sa_content = null ; this._length = null
ResetState(st) ==
  [st EXCEPT !.content = NullContent, !.length = Null, !.pop = NothingPopulated]

\* invokeDelegateMethod(this.delegate, 'sparseArrayDidReset', this)
invokeDidReset(st) ==
  IF HasCap(delegate, "sparseArrayDidReset")
    THEN Emit(st, Ev("sparseArrayDidReset", TRUE, NoArg, NoArg))
    ELSE st

reset ==
  Finish(invokeDidReset(enumerableContentDidChange(ResetState(Cur), NoArg, NoArg)),
         Op("reset", NoArg, NoArg, <<>>, Undefined, TRUE, NoSync), This)

\* ------------------------------------------------------------------------
\* SC.SparseArray.create({...}) and SC.SparseArray.array(len)
\* ------------------------------------------------------------------------
Init ==
  /\ _sa_content = NullContent
  /\ _length \in {Undefined} \cup Lengths
  /\ delegate \in Delegates
  /\ rangeWindowSize \in 1..MaxWindow
  /\ populated = NothingPopulated
  /\ requested = NoRequest
  /\ _TMP_RANGE = NoRange
  /\ lastOp = Op("create", NoArg, NoArg, <<>>, Undefined, TRUE, NoSync)
  /\ events = <<>>
  /\ ret = This
  /\ threw = "none"

Next ==
  \/ \E len \in Lengths \cup {Null} : provideLength(len)
  \/ \E sync \in Lengths \cup {Null, NoSync} : length(sync)
  \/ \E idx \in Idx, sync \in Values \cup {NoSync} : objectAt(idx, sync)
  \/ \E start \in Idx, len \in 0..MaxLen : \E array \in ArraysOf(len) :
       provideObjectsInRange(start, len, array)
  \/ \E for \in Idx, len \in 1..MaxWindow : \E array \in ArraysOf(len) :
       provideObjectsInRangeLater(for, array)
  \/ \E index \in Idx, object \in Values : provideObjectAtIndex(index, object)
  \/ \E start \in Idx, len \in 0..MaxLen : objectsDidChangeInRange(start, len)
  \/ \E obj \in Values : indexOf(obj)
  \/ \E idx \in 0..MaxLen, amt \in 0..MaxAmt, n \in 0..MaxObjs, allow \in BOOLEAN :
       \E objects \in ArraysOf(n) : replace(idx, amt, objects, allow)
  \/ reset

Spec == Init /\ [][Next]_vars

\* ------------------------------------------------------------------------
\* Properties
\* ------------------------------------------------------------------------
\* the backing array before and after the step
Old == ContentOrEmpty(_sa_content).elems
New == ContentOrEmpty(_sa_content').elems

IsNotification(e) ==
  e.kind \in {"enumerableContentDidChange", "propertyWillChange:length",
              "propertyDidChange:length"}
Emitted(log, ev) == \E k \in 1..Len(log) : log[k] = ev
Notified(log) == \E k \in 1..Len(log) : IsNotification(log[k])

\* the call passed the permission gate of replace
Applied(op) == op.name = "replace" /\ ~Rejected(delegate, op.allow)

\* C1: with rangeWindowSize w > 1 and a delegate that implements
\* sparseArrayDidRequestRange, objectAt(i) on an absent index issues a
\* request for the range (floor(i / w) * w, w).
ClaimC1 ==
  [][(/\ lastOp'.name = "objectAt"
      /\ Get(Old, lastOp'.idx) = Undefined
      /\ HasCap(delegate, "sparseArrayDidRequestRange")
      /\ rangeWindowSize > 1)
     => Emitted(events', Ev("sparseArrayDidRequestRange", TRUE,
                            (lastOp'.idx \div rangeWindowSize) * rangeWindowSize,
                            rangeWindowSize))]_vars

\* C2: when sparseArrayShouldReplace returns a falsy value, replace leaves
\* the cached elements and _length as they were and emits no notification.
TheoremC2 ==
  [][(/\ lastOp'.name = "replace"
      /\ HasCap(delegate, "sparseArrayShouldReplace")
      /\ ~lastOp'.allow)
     => (/\ _sa_content' = _sa_content
         /\ _length' = _length
         /\ ~Notified(events'))]_vars

WitnessC2 ==
  /\ lastOp.name = "replace"
  /\ HasCap(delegate, "sparseArrayShouldReplace")
  /\ ~lastOp.allow
  /\ Len(lastOp.objects) > 0
  /\ lastOp.amt > 0
  /\ Len(_sa_content.elems) > 0
  /\ _length.t = "number"

\* C3: replace is applied to the cache and the length, and a notification
\* is emitted, when no delegate is attached and also when the delegate does
\* not implement sparseArrayShouldReplace.
ClaimC3 ==
  [][(/\ lastOp'.name = "replace"
      /\ ~HasCap(delegate, "sparseArrayShouldReplace"))
     => (/\ New = Splice(Old, lastOp'.idx, lastOp'.amt, lastOp'.objects)
         /\ _length' = UpdateLength(Cur, Len(lastOp'.objects) - lastOp'.amt).length
         /\ Notified(events'))]_vars

\* C4: after an applied replace(idx, amt, objects) with 0 <= idx <= declared
\* length, index idx+k holds objects[k], every element cached at j >= idx+amt
\* is cached at j + (objects.length - amt), and every index below idx is as
\* it was.
ClaimC4 ==
  [][(/\ Applied(lastOp')
      /\ _length.t = "number"
      /\ lastOp'.idx <= _length.v)
     => LET idx == lastOp'.idx
            amt == lastOp'.amt
            objects == lastOp'.objects
        IN /\ \A k \in 0..(Len(objects) - 1) : Get(New, idx + k) = objects[k + 1]
           /\ \A j \in 0..MaxLen :
                (j >= idx + amt /\ Get(Old, j) # Undefined)
                  => Get(New, j + Len(objects) - amt) = Get(Old, j)
           /\ \A j \in 0..MaxLen : j < idx => Get(New, j) = Get(Old, j)]_vars

\* C5: an applied replace(idx, amt, objects) takes a resolved length L to
\* L + (objects.length - amt) and leaves an unresolved length unresolved.
TheoremC5 ==
  [][Applied(lastOp')
     => IF _length.t = "number"
          THEN _length' = Num(_length.v + (Len(lastOp'.objects) - lastOp'.amt))
          ELSE _length' = _length /\ none(_length')]_vars

WitnessC5 ==
  /\ Applied(lastOp)
  /\ Len(lastOp.objects) # lastOp.amt
  /\ _length.t = "number"
  /\ Emitted(events, Ev("propertyDidChange:length", FALSE, NoArg, NoArg))

\* C6: in every reachable state the declared length is unresolved or a
\* non-negative integer.
ClaimC6 == none(_length) \/ (_length.t = "number" /\ _length.v >= 0)

\* an element is cached at index j, at or beyond a resolved length
Beyond(content, len, j) ==
  /\ len.t = "number"
  /\ j >= len.v
  /\ Get(ContentOrEmpty(content).elems, j) # Undefined

\* C7: with the length resolved, an index at or beyond the length holds a
\* cached element only after the length has shrunk, and no longer once a
\* replace or an objectsDidChangeInRange has touched that index.
ClaimC7 ==
  [][\A j \in Idx :
       /\ Beyond(_sa_content', _length', j)
            => \/ Beyond(_sa_content, _length, j)
               \/ (_length.t = "number" /\ _length'.v < _length.v)
       /\ (/\ Beyond(_sa_content, _length, j)
           /\ \/ (/\ Applied(lastOp')
                  /\ Touches(lastOp'.idx, lastOp'.amt, lastOp'.objects, j))
              \/ (/\ lastOp'.name = "objectsDidChangeInRange"
                  /\ j >= lastOp'.idx /\ j < lastOp'.idx + lastOp'.amt))
            => ~Beyond(_sa_content', _length', j)]_vars

\* C8: once a provide* call has stored v at i, objectAt(i) returns v until
\* an objectsDidChangeInRange covering i, a reset, a provideLength(none) or
\* a replace touching i (the delegate writing nothing during the read).
ClaimC8 ==
  [][(/\ lastOp'.name = "objectAt"
      /\ lastOp'.sync = NoSync
      /\ populated[lastOp'.idx] # NotPopulated)
     => (threw' = "none" /\ ret' = populated[lastOp'.idx])]_vars

\* C9: objectsDidChangeInRange over [a, a+n) makes every index in the range
\* absent, leaves every index outside it as it was, and leaves the declared
\* length as it was.
TheoremC9 ==
  [][lastOp'.name = "objectsDidChangeInRange"
     => LET a == lastOp'.idx
            n == lastOp'.amt
        IN /\ \A j \in 0..MaxLen :
                IF j >= a /\ j < a + n
                  THEN Get(New, j) = Undefined
                  ELSE Get(New, j) = Get(Old, j)
           /\ _length' = _length]_vars

WitnessC9 ==
  /\ lastOp.name = "objectsDidChangeInRange"
  /\ lastOp.idx = 1
  /\ lastOp.amt >= 1
  /\ Len(_sa_content.elems) = 2
  /\ _sa_content.elems[1] = Obj(1)
  /\ _sa_content.elems[2] = Undefined

\* C10: reset asks nobody: after it no index holds an element and the
\* length is unresolved; it emits one content-change notification and then
\* calls sparseArrayDidReset if the delegate has it; and a length query
\* right after it calls sparseArrayDidRequestLength again.
TheoremC10 ==
  [][/\ lastOp'.name = "reset"
          => /\ \A j \in 0..MaxLen : Get(New, j) = Undefined
             /\ none(_length')
             /\ events' =
                  <<Ev("enumerableContentDidChange", FALSE, NoArg, NoArg)>> \o
                  (IF HasCap(delegate, "sparseArrayDidReset")
                     THEN <<Ev("sparseArrayDidReset", TRUE, NoArg, NoArg)>>
                     ELSE <<>>)
     /\ (/\ lastOp.name = "reset"
         /\ lastOp'.name = "length"
         /\ HasCap(delegate, "sparseArrayDidRequestLength"))
          => (/\ Len(events') >= 1
              /\ events'[1] = Ev("sparseArrayDidRequestLength", TRUE, NoArg, NoArg))]_vars

WitnessC10 ==
  /\ lastOp.name = "reset"
  /\ HasCap(delegate, "sparseArrayDidReset")
  /\ HasCap(delegate, "sparseArrayShouldReplace")
  /\ Len(events) = 2
  /\ _sa_content.isNull
  /\ _length = Null

\* some index reads differently in the backing array after the step
CacheChanged == \E j \in 0..MaxLen : Get(Old, j) # Get(New, j)
ContentChangeNotified(log) ==
  \E k \in 1..Len(log) : log[k].kind = "enumerableContentDidChange"

\* C11: a call that changes what the cache holds (provideObjectsInRange,
\* provideObjectAtIndex, objectsDidChangeInRange, reset, an applied replace,
\* provideLength(none) discarding the cached elements) emits at least one
\* content-change notification during that call.
ClaimC11 ==
  [][CacheChanged => ContentChangeNotified(events')]_vars

\* C12: provideLength(n) with a concrete n other than the current length
\* stores n and emits exactly one whole-sequence change notification; with n
\* equal to the current length it changes neither the length nor the cache
\* and emits nothing.
TheoremC12 ==
  [][(lastOp'.name = "provideLength" /\ lastOp'.arg.t = "number")
     => IF lastOp'.arg # _length
          THEN /\ _length' = lastOp'.arg
               /\ events' = <<Ev("enumerableContentDidChange", FALSE, NoArg, NoArg)>>
          ELSE /\ _length' = _length
               /\ _sa_content' = _sa_content
               /\ events' = <<>>]_vars

WitnessC12 ==
  /\ lastOp.name = "provideLength"
  /\ lastOp.arg = Num(1)
  /\ _length = Num(1)
  /\ Len(events) = 1
  /\ Len(_sa_content.elems) = 2

\* how many entries of the log are of this kind
Count(log, kind) == Cardinality({k \in 1..Len(log) : log[k].kind = kind})
\* how many calls on the delegate the log holds
DelegateCalls(log) == Cardinality({k \in 1..Len(log) : log[k].kind \in Caps})

\* C13: the length query returns a resolved length without calling the
\* delegate; with the length unresolved and sparseArrayDidRequestLength
\* implemented it calls it exactly once and returns the length set during
\* the call, 0 if none was set; with no delegate or without the method it
\* returns 0 and calls nothing.
TheoremC13 ==
  [][lastOp'.name = "length"
     => IF ~none(_length)
          THEN ret' = _length /\ DelegateCalls(events') = 0
          ELSE IF HasCap(delegate, "sparseArrayDidRequestLength")
            THEN /\ DelegateCalls(events') = 1
                 /\ Count(events', "sparseArrayDidRequestLength") = 1
                 /\ ret' = (IF lastOp'.sync.t = "number" THEN lastOp'.sync ELSE Num(0))
                 /\ lastOp'.sync.t = "number" => _length' = lastOp'.sync
            ELSE ret' = Num(0) /\ DelegateCalls(events') = 0]_vars

WitnessC13 ==
  /\ lastOp.name = "length"
  /\ lastOp.sync = Num(2)
  /\ ret = Num(2)
  /\ events = <<Ev("sparseArrayDidRequestLength", TRUE, NoArg, NoArg),
                Ev("enumerableContentDidChange", FALSE, NoArg, NoArg)>>

\* C14: every call made on the delegate (length resolution, range fetch,
\* per-index fetch, index lookup, replace authorization, reset callback)
\* passes the collection itself as its first argument.
ClaimC14 ==
  \A k \in 1..Len(events) : events[k].kind \in Caps => events[k].self

\* C15: indexOf(value) returns the answer of sparseArrayDidRequestIndexOf
\* when the delegate implements it, otherwise the first cached index holding
\* the value, or -1, by a scan of the cache; it never asks for a range or an
\* index, and it changes neither the cache nor the length.
ClaimC15 ==
  [][lastOp'.name = "indexOf"
     => /\ threw' = "none"
        /\ IF HasCap(delegate, "sparseArrayDidRequestIndexOf")
             THEN Count(events', "sparseArrayDidRequestIndexOf") = 1
             ELSE ret' = Num(ArrayIndexOf(Old, lastOp'.arg))
        /\ Count(events', "sparseArrayDidRequestRange") = 0
        /\ Count(events', "sparseArrayDidRequestIndex") = 0
        /\ ~CacheChanged
        /\ _length' = _length]_vars

\* how many fetches (range or per-index) the log holds
Fetches(log) ==
  Count(log, "sparseArrayDidRequestRange") + Count(log, "sparseArrayDidRequestIndex")

\* C16: an index a provide* call has written, with whatever value (null and
\* undefined included), and that has not been invalidated since, is
\* populated: objectAt on it asks the delegate for nothing.
ClaimC16 ==
  [][(/\ lastOp'.name = "objectAt"
      /\ populated[lastOp'.idx] # NotPopulated)
     => Fetches(events') = 0]_vars

\* the window a miss at idx is to be coalesced into
WindowStart(idx) ==
  IF rangeWindowSize > 1 THEN (idx \div rangeWindowSize) * rangeWindowSize ELSE idx
WindowLength == IF rangeWindowSize < 1 THEN 1 ELSE rangeWindowSize

\* C17: with a window larger than one and a delegate that resolves the
\* length and writes every index of a requested range during the callback,
\* objectAt on an absent index issues exactly one request, for the window
\* the index falls in, and returns the written value in that same call; a
\* following objectAt on an index of that window returns its value with no
\* further request.
ClaimC17 ==
  [][(/\ lastOp'.name = "objectAt"
      /\ rangeWindowSize = MaxWindow
      /\ delegate = Del(Caps))
     => IF Get(Old, lastOp'.idx) = Undefined
          THEN /\ threw' = "none"
               /\ events'[1] = Ev("sparseArrayDidRequestRange", TRUE,
                                  WindowStart(lastOp'.idx), WindowLength)
               /\ Fetches(events') = 1
               /\ ret' # Undefined
               /\ \A j \in WindowStart(lastOp'.idx)..(WindowStart(lastOp'.idx) + WindowLength - 1) :
                    Get(New, j) # Undefined
          ELSE /\ ret' = Get(Old, lastOp'.idx)
               /\ Fetches(events') = 0]_vars

\* how many per-index fetches the log holds for index j
IndexFetches(log, j) ==
  Cardinality({k \in 1..Len(log) :
                 log[k].kind = "sparseArrayDidRequestIndex" /\ log[k].start = j})

\* C18: on a miss, a delegate with sparseArrayDidRequestRange gets exactly
\* one call of it, with the coalesced window, and no per-index call; one
\* with sparseArrayDidRequestIndex only gets exactly one call for each index
\* of the window and for no other; with no delegate, or with neither
\* method, nothing is called and the read returns absent.
ClaimC18 ==
  [][(lastOp'.name = "objectAt" /\ Get(Old, lastOp'.idx) = Undefined)
     => LET start == WindowStart(lastOp'.idx)
            len == WindowLength
        IN /\ threw' = "none"
           /\ IF HasCap(delegate, "sparseArrayDidRequestRange")
                THEN /\ Count(events', "sparseArrayDidRequestRange") = 1
                     /\ events'[1].start = start /\ events'[1].length = len
                     /\ Count(events', "sparseArrayDidRequestIndex") = 0
              ELSE IF HasCap(delegate, "sparseArrayDidRequestIndex")
                THEN /\ Count(events', "sparseArrayDidRequestRange") = 0
                     /\ \A j \in 0..(2 * MaxWindow) :
                          IndexFetches(events', j) =
                            (IF j >= start /\ j < start + len THEN 1 ELSE 0)
              ELSE /\ DelegateCalls(events') = 0
                   /\ ret' = Undefined]_vars

\* C19: an applied replace emits exactly one structural notification for
\* the whole call and, when objects.length - amt is not 0 and the length is
\* resolved, exactly one will-change / did-change pair for the length; the
\* order of the call is authorization, cache splice, length change,
\* structural notification; and a replace that is turned down writes
\* nothing.
TheoremC19 ==
  [][lastOp'.name = "replace"
     => LET asked == IF HasCap(delegate, "sparseArrayShouldReplace")
                       THEN <<Ev("sparseArrayShouldReplace", TRUE,
                                 lastOp'.idx, lastOp'.amt)>>
                       ELSE <<>>
            lengthChange ==
              IF Len(lastOp'.objects) # lastOp'.amt /\ _length.t = "number"
                THEN <<Ev("propertyWillChange:length", FALSE, NoArg, NoArg),
                       Ev("write:_length", FALSE, NoArg, NoArg),
                       Ev("propertyDidChange:length", FALSE, NoArg, NoArg)>>
                ELSE <<>>
        IN IF Applied(lastOp')
             THEN events' = asked
                            \o <<Ev("write:_sa_content", FALSE, NoArg, NoArg)>>
                            \o lengthChange
                            \o <<Ev("enumerableContentDidChange", FALSE, NoArg, NoArg)>>
             ELSE events' = asked]_vars

WitnessC19 ==
  /\ Applied(lastOp)
  /\ HasCap(delegate, "sparseArrayShouldReplace")
  /\ Len(events) = 6
  /\ events[1].kind = "sparseArrayShouldReplace"
  /\ events[6].kind = "enumerableContentDidChange"

\* C20: when objectAt(i) has issued a fetch, then a reset or an
\* objectsDidChangeInRange covering i has run, and then the delegate calls
\* provideObjectsInRange or provideObjectAtIndex for i with a value v, the
\* write is applied and a notification emitted, and a following objectAt(i)
\* returns v without asking the delegate again.
ClaimC20 ==
  [][LET i == requested.idx
     IN /\ (requested.stage = "overtaken" /\ ProvidedAt(lastOp', i))
             => (/\ Get(New, i) = populated'[i]
                 /\ ContentChangeNotified(events'))
        /\ (/\ requested.stage = "answered"
            /\ lastOp'.name = "objectAt"
            /\ lastOp'.idx = i)
             => (/\ threw' = "none"
                 /\ ret' = populated[i]
                 /\ Fetches(events') = 0)]_vars

\* C21: sharing the scratch objects changes no outcome: when the delegate
\* answers a fetch later with the range it was handed, that range still
\* denotes the window of the fetch it answers and the values land there;
\* and provideObjectAtIndex(index, object) leaves object at index.
ClaimC21 ==
  [][/\ (lastOp'.name = "provideObjectsInRange" /\ lastOp'.arg.t = "number")
          => LET start == WindowStart(lastOp'.arg.v)
             IN /\ lastOp'.idx = start
                /\ lastOp'.amt = WindowLength
                /\ \A k \in 0..(WindowLength - 1) :
                     Get(New, start + k) = lastOp'.objects[k + 1]
     /\ lastOp'.name = "provideObjectAtIndex"
          => Get(New, lastOp'.idx) = populated'[lastOp'.idx]]_vars
====
